---- MODULE Spec2Model ----
(***************************************************************************)
(* Model of the account session orchestrator of                            *)
(* src/src/app/logic/accounts.ts (react-native-app-test-lib).              *)
(*                                                                         *)
(* The module holds one group of variables per component and one          *)
(* specification per component:                                            *)
(*   SpecProxy    createP2PProxy            (message delivery proxy)       *)
(*   SpecSession  accounts / initAccount    (session manager, initializer) *)
(*   SpecEvents   initAccount events wiring (event log, engine driving)    *)
(*   SpecBalance  balance / balances        (balance tracker, dedup)       *)
(* A specification moves only the variables of its own group.              *)
(***************************************************************************)
EXTENDS Naturals, Integers, Sequences, FiniteSets, TLC

VARIABLES
    \* ---- createP2PProxy (accounts.ts:103-128)
    mode,       \* let mode: P2PMode                          (line 104)
    messages,   \* messages.value, the pending queue          (line 105)
    wire,       \* history: every p2p.send invocation, in order
    calls,      \* history: every proxy.send(to, msg) call, in order
    lastOp      \* history: the proxy call executed last: its name, the
                \* argument m of setMode, what send returned, and the number n
                \* of p2p.send invocations it made

VARIABLES
    \* ---- accounts / initAccount (accounts.ts:130-262)
    cfg,        \* the userAccounts of the configuration userSession()
                \* emitted last (<<>> before the first)
    nCfg,       \* history: how many configurations it has emitted
    loggedOut,  \* userSession() has completed (takeUntil, line 234)
    accStream,  \* the switchMap of accounts(): "idle" (no inner running),
                \* "inner", "completed" or "errored"
    acct,       \* per address: the latest initAccount instance and the state
                \* of its zip (lines 208-218)
    inited,     \* const inited: Account[]                     (line 240)
    arr,        \* the buffer of the running inner's toArray() (line 249)
    published   \* history: the account lists accounts() has emitted

VARIABLES
    \* ---- initAccount: event log and engine wiring (accounts.ts:98-101, 162-206)
    known,      \* blockchain.monitoring.blockNumber(); 0 while undefined
    src,        \* history: what the three raw sources have delivered, in order
    log,        \* the array the scan of collectEvents holds      (line 100)
    pipe,       \* the shared pipeline behind `events`: "live", "errored",
                \* or "off" (disconnected from its sources)
    upstream,   \* how often the pipeline has subscribed to the sources; it
                \* numbers the ReplaySubjects of shareReplay(1)  (line 101)
    share,      \* how this build's shareReplay treats a subscriber count of
                \* zero: "refCount" (rxjs 5.4: disconnects), "keep" (rxjs 5.5:
                \* stays connected), "undecided" until it first matters
    intSub,     \* const sub = events.subscribe() is still open   (line 189)
    engine,     \* history: the engine callbacks invoked, in order
    cons,       \* the consumers of `events`
    disposed    \* how many times the handle's dispose() has been called

VARIABLES
    \* ---- balance / balances (accounts.ts:273-324), one account
    balBlock,   \* the block number blockNumbers() delivered last (0: none)
    inflight,   \* the block whose three-query batch the switchMap of line 279
                \* is waiting for (0: none)
    balState,   \* the handle's balance stream: "live" or "errored"
    balanceOut, \* history: the readings the handle's balance stream emitted
    dedupKey,   \* the key distinctUntilChanged holds (line 303): <<>> or <<r>>
    passed,     \* history: the readings distinctUntilChanged let through
    dropped,    \* history: the blocks whose batch the switchMap of line 279
                \* unsubscribed before it resolved
    settle,     \* the plain reading the delay(5000) of line 316 holds back:
                \* <<>> or <<b>>
    entryOut    \* history: what the account's pipeline emitted after the
                \* switchMap of lines 306-320

VARIABLES
    \* ---- balances over the published account lists (accounts.ts:297-324)
    lastList,      \* the account list accounts() published last
    nLists,        \* how many lists accounts() has published
    balStream,     \* per account: the handle's balance stream, its state and
                   \* the value its shareReplay(1) holds (<<>>: undefined)
    nReadings,     \* how many readings the balance streams have emitted
    pipelines,     \* per account: the pipelines line 300 has subscribed, each
                   \* the key of its distinctUntilChanged and its running delay
    balancesState, \* the stream balances() returns: "live" or "errored"
    balanceMap,    \* the accumulator of the scan of line 324
    mapOut         \* history: the maps the scan has emitted

proxyVars == <<mode, messages, wire, calls, lastOp>>
mapVars == <<lastList, nLists, balStream, nReadings, pipelines, balancesState,
             balanceMap, mapOut>>
balVars == <<balBlock, inflight, balState, balanceOut, dedupKey, passed,
             dropped, settle, entryOut>>
evVars == <<known, src, log, pipe, upstream, share, intSub, engine, cons,
            disposed>>
sessVars == <<cfg, nCfg, loggedOut, accStream, acct, inited, arr, published>>

vars == <<proxyVars, sessVars, evVars, balVars, mapVars>>

(***************************************************************************)
(* Small helpers.                                                          *)
(***************************************************************************)
Last(s) == s[Len(s)]

(***************************************************************************)
(*                       MESSAGE DELIVERY PROXY                            *)
(***************************************************************************)

\* Bound: number of proxy.send calls in one behaviour.
MaxSends == 3

Peers == {"p1", "p2"}
Msgs  == {"m1", "m2"}
P2PModes == {"normal", "manual"}

\* to.toString('hex') and message.serialize(m): the wire form of a pair.
\* Both conversions are injective encodings; the wire never carries the
\* in-memory value itself.
Hex(t) == <<"hex", t>>
Serialize(m) == <<"bytes", m>>

\* One invocation of the transport's raw primitive p2p.send(hex, bytes).
\*   pos    = 0 for the direct call of send() (line 123), i >= 1 for the i-th
\*            element visited by flush's forEach (line 109);
\*   modeAt = the value of `mode` at the moment of the invocation;
\*   ok     = whether the promise the transport returns resolves (TRUE) or
\*            rejects (FALSE).
RawSend(t, m, pos, md, ok) ==
    [to |-> Hex(t), msg |-> Serialize(m), pos |-> pos, modeAt |-> md, ok |-> ok]

\* Mutant of FlushSends: the loop stops at the first failing send, as an
\* awaiting or throwing loop would.
FlushSendsStopOnFailure(q, md, oks) ==
    LET n == IF \E i \in 1..Len(q) : ~oks[i]
             THEN CHOOSE i \in 1..Len(q) : ~oks[i] /\ \A j \in 1..(i-1) : oks[j]
             ELSE Len(q)
    IN [i \in 1..n |-> RawSend(q[i][1], q[i][2], i, md, oks[i])]

\* Mutant of FlushSends: the queue is drained last-in first-out.
FlushSendsLifo(q, md, oks) ==
    [i \in 1..Len(q) |->
        RawSend(q[Len(q) + 1 - i][1], q[Len(q) + 1 - i][2], i, md, oks[i])]

\* messages.value.forEach(([t, m]) => p2p.send(...)): the invocations one
\* flush adds to the wire.  Nobody awaits or catches the returned promises,
\* so a rejected one does not stop the loop.
FlushSends(q, md, oks) ==
    [i \in 1..Len(q) |-> RawSend(q[i][1], q[i][2], i, md, oks[i])]

\* const flush = () => { forEach send; messages.next([]) }   (lines 107-111)
\* as a relation between the state before and after, for the outcomes oks.
FlushBody(oks) ==
    /\ wire' = wire \o FlushSends(messages, mode, oks)
    /\ messages' = <<>>

\* Mutant of FlushBody: the queue is not cleared after the sends.
FlushBodyNoClear(oks) ==
    /\ wire' = wire \o FlushSends(messages, mode, oks)
    /\ messages' = messages

\* flush()                                                    (line 126)
flush ==
    /\ \E oks \in [1..Len(messages) -> BOOLEAN] : FlushBody(oks)
    /\ mode' = mode
    /\ calls' = calls
    /\ lastOp' = [op |-> "flush", m |-> "none", ret |-> "none",
                  n |-> Len(wire') - Len(wire)]

\* Mutant of setMode: the mode is assigned before the queue is flushed.
setModeAssignFirst(m) ==
    /\ \E oks \in [1..Len(messages) -> BOOLEAN] :
          /\ wire' = wire \o FlushSends(messages, m, oks)
          /\ messages' = <<>>
    /\ mode' = m
    /\ calls' = calls
    /\ lastOp' = [op |-> "setMode", m |-> m, ret |-> "none",
                  n |-> Len(wire') - Len(wire)]

\* Mutant of setMode: the mode is assigned without flushing.
setModeNoFlush(m) ==
    /\ mode' = m
    /\ UNCHANGED <<wire, messages, calls>>
    /\ lastOp' = [op |-> "setMode", m |-> m, ret |-> "none",
                  n |-> Len(wire') - Len(wire)]

\* setMode: (m) => { flush(); mode = m }                      (lines 116-119)
setMode(m) ==
    /\ \E oks \in [1..Len(messages) -> BOOLEAN] : FlushBody(oks)
    /\ mode' = m
    /\ calls' = calls
    /\ lastOp' = [op |-> "setMode", m |-> m, ret |-> "none",
                  n |-> Len(wire') - Len(wire)]

\* Mutant of send: a manual-mode send is forwarded as well as queued.
sendAlsoForwards(t, m) ==
    /\ Len(calls) < MaxSends
    /\ calls' = Append(calls, <<t, m>>)
    /\ mode' = mode
    /\ \E ok \in BOOLEAN :
          /\ wire' = Append(wire, RawSend(t, m, 0, mode, ok))
          /\ lastOp' = [op |-> "send", m |-> "none", n |-> 1,
                        ret |-> IF ok THEN "resolved" ELSE "rejected"]
    /\ messages' = IF mode = "normal" THEN messages
                   ELSE Append(messages, <<t, m>>)

\* Mutant of send: every send is queued, whatever the mode.
sendAlwaysQueues(t, m) ==
    /\ Len(calls) < MaxSends
    /\ calls' = Append(calls, <<t, m>>)
    /\ mode' = mode
    /\ wire' = wire
    /\ messages' = Append(messages, <<t, m>>)
    /\ lastOp' = [op |-> "send", m |-> "none", n |-> 0, ret |-> "false"]

\* send: (to, msg) => mode === 'normal' ? p2p.send(...) :
\*        messages.next(messages.value.concat([[to, msg]])) || Promise.resolve(false)
\*                                                            (lines 120-125)
send(t, m) ==
    /\ Len(calls) < MaxSends
    /\ calls' = Append(calls, <<t, m>>)
    /\ mode' = mode
    /\ IF mode = "normal"
       THEN /\ \E ok \in BOOLEAN :
                 /\ wire' = Append(wire, RawSend(t, m, 0, mode, ok))
                 /\ lastOp' = [op |-> "send", m |-> "none", n |-> 1,
                               ret |-> IF ok THEN "resolved" ELSE "rejected"]
            /\ messages' = messages
       ELSE /\ messages' = Append(messages, <<t, m>>)
            /\ wire' = wire
            /\ lastOp' = [op |-> "send", m |-> "none", n |-> 0, ret |-> "false"]

\* State after createP2PProxy(p2p) returns.                   (lines 104-105)
InitProxy ==
    /\ mode = "normal"
    /\ messages = <<>>
    /\ wire = <<>>
    /\ calls = <<>>
    /\ lastOp = [op |-> "init", m |-> "none", ret |-> "none", n |-> 0]

(***************************************************************************)
(*                 SESSION MANAGER AND ACCOUNT INITIALIZER                 *)
(***************************************************************************)

\* Bound: number of configurations the session emits in one behaviour.
MaxConfigs == 3

Addrs == {"A", "B", "C"}

\* cfg.userAccounts, as the list of its addresses.  A configuration lists an
\* address once; toAccount (lines 81-92) derives from an entry's key the same
\* address string the entry carries.
Configs ==
    { <<>>, <<"A">>, <<"B">>, <<"A", "B">>, <<"B", "C">>, <<"A", "B", "C">> }

\* What the transport reports on 'status-changed'.
Statuses == {"connected", "disconnected"}

Range(q) == {q[i] : i \in 1..Len(q)}

\* No initAccount instance yet for the address.
NoInstance ==
    [phase |-> "none", gen |-> 0, reported |-> {}, bn |-> "wait",
     bal |-> "wait", emits |-> 0]

\* initAccount(cfg, contracts)(account), lines 130-218: a fresh transport,
\* monitor and engine, and a zip subscribed to the transport's status and to
\* the two initial RPCs.  gen counts the initializer invocations for the
\* address.
NewInstance(old) ==
    [phase |-> "pending", gen |-> old.gen + 1, reported |-> {}, bn |-> "wait",
     bal |-> "wait", emits |-> 0]

\* An instance whose zip the pipeline has unsubscribed (switchMap moved on, or
\* the stream ended in error) before it emitted.  Its transport, monitor and
\* engine are not disposed, but nothing it does reaches accounts() any more.
Dropped(p) ==
    [phase |-> "dropped", gen |-> p.gen, reported |-> {}, bn |-> "wait",
     bal |-> "wait", emits |-> p.emits]

\* Mutant of ZipReady: the handle is emitted as soon as any one of the three
\* sources has a value (merge / combine-any instead of zip).
ZipReadyAny(p) ==
    \/ "connected" \in p.reported
    \/ p.bn = "ok"
    \/ p.bal = "ok"

\* Observable.zip(status.filter(connected).take(1), blockNumber, getBalance):
\* it emits once each of the three has produced its value.  (lines 208-218)
ZipReady(p) ==
    /\ "connected" \in p.reported
    /\ p.bn = "ok"
    /\ p.bal = "ok"

\* The handle .mapTo({...}) builds for an instance.          (lines 219-229)
Handle(a, p) == [addr |-> a, gen |-> p.gen]

\* Mutant of FreshAddrs: the filter on `inited` is left out.
FreshAddrsUnfiltered(c) == Range(c)

\* The addresses the filter of line 244 lets through: those of cfg with no
\* handle in `inited`.
FreshAddrs(c) == Range(c) \ {inited[i].addr : i \in 1..Len(inited)}

\* One source of an instance's zip has delivered; p is the instance's record
\* with that delivery applied.  If the zip is now complete the handle is
\* emitted: .do(a => inited.push(a)) and the toArray buffer take it, and when
\* it was the last initialization of the inner observable toArray() emits the
\* list and the inner completes.                               (lines 246-249)
ZipDelivers(a, p) ==
    IF p.phase = "pending" /\ ZipReady(p)
    THEN LET h == Handle(a, p)
             q == [p EXCEPT !.phase = "done", !.emits = @ + 1]
             acct2 == [acct EXCEPT ![a] = q]
             last == \A b \in Addrs : acct2[b].phase # "pending"
         IN /\ acct' = acct2
            /\ inited' = Append(inited, h)
            /\ arr' = Append(arr, h)
            /\ published' = IF last THEN Append(published, Append(arr, h))
                            ELSE published
            /\ accStream' = IF ~last THEN accStream
                            ELSE IF loggedOut THEN "completed" ELSE "idle"
    ELSE /\ acct' = [acct EXCEPT ![a] = p]
         /\ UNCHANGED <<inited, arr, published, accStream>>

\* userSession() emits a configuration; switchMap (line 242) unsubscribes the
\* running inner observable and builds a new one: the addresses not yet in
\* `inited` are initialized (lines 243-246), merged with the handles already
\* in `inited` (line 248) and collected by toArray (line 249).
SessionEmits(c) ==
    /\ ~loggedOut
    /\ accStream \in {"idle", "inner"}
    /\ nCfg < MaxConfigs
    /\ cfg' = c
    /\ nCfg' = nCfg + 1
    /\ acct' = [a \in Addrs |->
                  IF a \in FreshAddrs(c) THEN NewInstance(acct[a])
                  ELSE IF acct[a].phase = "pending" THEN Dropped(acct[a])
                       ELSE acct[a]]
    /\ arr' = inited
    /\ inited' = inited
    /\ IF FreshAddrs(c) = {}
       THEN /\ published' = Append(published, inited)
            /\ accStream' = "idle"
       ELSE /\ published' = published
            /\ accStream' = "inner"
    /\ loggedOut' = loggedOut

\* The session becomes absent: takeUntil (line 234) completes userSession().
\* switchMap completes at once when no inner observable is running and
\* otherwise when the running one completes.
SessionAbsent ==
    /\ ~loggedOut
    /\ loggedOut' = TRUE
    /\ accStream' = IF accStream = "idle" THEN "completed" ELSE accStream
    /\ UNCHANGED <<cfg, nCfg, acct, inited, arr, published>>

\* The transport of a's instance emits 'status-changed'.     (lines 209-212)
StatusChanged(a, st) ==
    /\ acct[a].phase = "pending"
    /\ st \notin acct[a].reported
    /\ ZipDelivers(a, [acct[a] EXCEPT !.reported = @ \cup {st}])
    /\ UNCHANGED <<cfg, nCfg, loggedOut>>

\* blockchain.rpc.blockNumber() of a's instance resolves.    (lines 213-215)
BlockNumberFetched(a) ==
    /\ acct[a].phase = "pending"
    /\ acct[a].bn = "wait"
    /\ ZipDelivers(a, [acct[a] EXCEPT !.bn = "ok"])
    /\ UNCHANGED <<cfg, nCfg, loggedOut>>

\* blockchain.rpc.getBalance(...) of a's instance resolves.  (lines 216-217)
BalanceFetched(a) ==
    /\ acct[a].phase = "pending"
    /\ acct[a].bal = "wait"
    /\ ZipDelivers(a, [acct[a] EXCEPT !.bal = "ok"])
    /\ UNCHANGED <<cfg, nCfg, loggedOut>>

\* One of the two initial RPCs of a's instance rejects: the error passes
\* through zip, mergeMap and switchMap, nothing catches it, and accounts()
\* ends in error with every subscription of the inner torn down.
RpcFailed(a, which) ==
    /\ acct[a].phase = "pending"
    /\ IF which = "bn" THEN acct[a].bn = "wait" ELSE acct[a].bal = "wait"
    /\ acct' = [b \in Addrs |->
                  IF b = a
                  THEN IF which = "bn" THEN [Dropped(acct[a]) EXCEPT !.bn = "failed"]
                       ELSE [Dropped(acct[a]) EXCEPT !.bal = "failed"]
                  ELSE IF acct[b].phase = "pending" THEN Dropped(acct[b])
                       ELSE acct[b]]
    /\ accStream' = "errored"
    /\ UNCHANGED <<cfg, nCfg, loggedOut, inited, arr, published>>

\* State when accounts() is subscribed: const inited = []     (line 240)
InitSession ==
    /\ cfg = <<>>
    /\ nCfg = 0
    /\ loggedOut = FALSE
    /\ accStream = "idle"
    /\ acct = [a \in Addrs |-> NoInstance]
    /\ inited = <<>>
    /\ arr = <<>>
    /\ published = <<>>

(***************************************************************************)
(*                  EVENT AGGREGATOR AND ENGINE DRIVING                    *)
(***************************************************************************)

\* Bound: number of deliveries by the raw sources in one behaviour.
MaxEvents == 4

\* Bound: number of times the pipeline is started again.
MaxRestarts == 2

\* Bound: number of calls of the handle's dispose() in one behaviour.
MaxDisposeCalls == 2

\* p2p.dispose() and blockchain.monitoring.dispose() (lines 224-225) release
\* the transport and the monitor: a released source delivers nothing more,
\* and releasing it again changes nothing.
TransportReleased == disposed > 0
MonitorReleased == disposed > 0

ChainEvents == {"e1"}
\* Raw inbound peer messages; "bad" is one message.deserializeAndDecode
\* cannot decode.
PeerMsgs == {"m1", "bad"}
Consumers == {"c1", "c2"}

\* bn.toNumber(): a BN below 2^53 becomes the JavaScript number of the same
\* value.                                                   (lines 165, 174, 184)
ToNumber(bn) == bn

\* message.deserializeAndDecode(msg): the decoded message, or an exception.
\*                                                          (lines 197, 200)
DeserializeAndDecode(m) == IF m = "bad" THEN "throws" ELSE <<"decoded", m>>

\* The three map() projections of lines 163-185.  The BlockNumber branch
\* sets no `block` field (0 here).
ChainEvent(e) == [source |-> "B", block |-> ToNumber(known), event |-> e]
PeerEvent(m) == [source |-> "P", block |-> ToNumber(known), event |-> m]
BlockEvent(bn) == [source |-> "N", block |-> 0, event |-> ToNumber(bn)]

\* blockchain.monitoring.blockNumber()!.toNumber() throws a TypeError while
\* the monitor has no block number yet.                     (lines 165, 174)
BlockNumberThrows == known = 0

NoConsumer == [on |-> FALSE, gen |-> 0, k |-> 0, replay |-> <<>>]

\* Subscriptions the current ReplaySubject counts.
RefCount ==
    (IF intSub THEN 1 ELSE 0)
        + Cardinality({c \in Consumers : cons[c].on /\ cons[c].gen = upstream})

\* Mutant of Collect: the log keeps only the newest event.
CollectLatestOnly(a, e) == <<e>>

\* scan((a, e) => a.concat([e]), [])                         (line 100)
Collect(a, e) == a \o <<e>>

\* A projection threw inside the merged stream: the error reaches every
\* subscriber of the ReplaySubject.  `sub` has no error handler, so it is
\* closed, and with it the onBlock subscription added to it at line 191.
PipelineErrors ==
    /\ pipe' = "errored"
    /\ intSub' = FALSE
    /\ log' = log

\* The monitor delivers the next block number on blockNumbers(): the
\* BlockNumber branch of `events` (lines 180-185) logs it and the
\* subscription of lines 191-193 hands it to engine.onBlock.
BlockDelivered ==
    /\ Len(src) < MaxEvents
    /\ ~MonitorReleased
    /\ LET bn == known + 1
       IN /\ known' = bn
          /\ src' = Append(src, [source |-> "N", event |-> bn])
          /\ log' = IF pipe = "live" THEN Collect(log, BlockEvent(bn)) ELSE log
          /\ engine' = IF intSub THEN Append(engine, [cb |-> "onBlock", arg |-> bn])
                       ELSE engine
    /\ UNCHANGED <<pipe, upstream, share, intSub, cons, disposed>>

\* The monitor emits a blockchain event: the Blockchain branch of `events`
\* (lines 163-170) and the listener of line 196 both get it.  When the
\* projection throws, the exception travels back into the monitor's emit, and
\* whether the monitor still calls the later listener is its own business.
ChainEventDelivered(e) ==
    /\ Len(src) < MaxEvents
    /\ ~MonitorReleased
    /\ src' = Append(src, [source |-> "B", event |-> e])
    /\ IF pipe = "live" /\ BlockNumberThrows
       THEN /\ PipelineErrors
            /\ \E called \in BOOLEAN :
                  engine' = IF called
                            THEN Append(engine, [cb |-> "onBlockchainEvent", arg |-> e])
                            ELSE engine
       ELSE /\ log' = IF pipe = "live" THEN Collect(log, ChainEvent(e)) ELSE log
            /\ engine' = Append(engine, [cb |-> "onBlockchainEvent", arg |-> e])
            /\ UNCHANGED <<pipe, intSub>>
    /\ UNCHANGED <<known, upstream, share, cons, disposed>>

\* What the listener of line 197 does with a raw message.
OnMessageCall(m) ==
    IF DeserializeAndDecode(m) = "throws" THEN <<>>
    ELSE <<[cb |-> "onMessage", arg |-> DeserializeAndDecode(m)]>>

\* The transport emits 'message-received': the P2P branch of `events`
\* (lines 171-178) logs the raw message and the listener of line 197 decodes
\* it for engine.onMessage.
PeerMessageDelivered(m) ==
    /\ Len(src) < MaxEvents
    /\ ~TransportReleased
    /\ src' = Append(src, [source |-> "P", event |-> m])
    /\ IF pipe = "live" /\ BlockNumberThrows
       THEN /\ PipelineErrors
            /\ \E called \in BOOLEAN :
                  engine' = IF called THEN engine \o OnMessageCall(m) ELSE engine
       ELSE /\ log' = IF pipe = "live" THEN Collect(log, PeerEvent(m)) ELSE log
            /\ engine' = engine \o OnMessageCall(m)
            /\ UNCHANGED <<pipe, intSub>>
    /\ UNCHANGED <<known, upstream, share, cons, disposed>>

\* A consumer subscribes to `events`.  On a live pipeline it joins the
\* current ReplaySubject and is replayed the latest array.  After an error,
\* or when the pipeline was disconnected, shareReplay makes a new
\* ReplaySubject and subscribes to the sources again: a new scan, seeded [].
Subscribe(c) ==
    /\ ~cons[c].on
    /\ IF pipe = "live"
       THEN /\ cons' = [cons EXCEPT ![c] =
                          [on |-> TRUE, gen |-> upstream, k |-> Len(src), replay |-> log]]
            /\ UNCHANGED <<pipe, upstream, log>>
       ELSE /\ upstream <= MaxRestarts
            /\ cons' = [cons EXCEPT ![c] =
                          [on |-> TRUE, gen |-> upstream + 1, k |-> Len(src),
                           replay |-> <<>>]]
            /\ pipe' = "live"
            /\ upstream' = upstream + 1
            /\ log' = <<>>
    /\ UNCHANGED <<known, src, share, intSub, engine, disposed>>

\* A consumer unsubscribes.  When it was the last subscription of the live
\* ReplaySubject, a reference-counting shareReplay disconnects from the
\* sources and the other kind stays connected.
Unsubscribe(c) ==
    /\ cons[c].on
    /\ cons' = [cons EXCEPT ![c] = NoConsumer]
    /\ IF pipe = "live" /\ cons[c].gen = upstream /\ RefCount = 1
       THEN \E kind \in {"refCount", "keep"} :
               /\ share \in {"undecided", kind}
               /\ share' = kind
               /\ pipe' = IF kind = "refCount" THEN "off" ELSE pipe
       ELSE UNCHANGED <<share, pipe>>
    /\ UNCHANGED <<known, src, log, upstream, intSub, engine, disposed>>

\* Mutant of dispose: sub.unsubscribe() is left out.
disposeKeepsSub ==
    /\ disposed < MaxDisposeCalls
    /\ disposed' = disposed + 1
    /\ UNCHANGED <<known, src, log, pipe, upstream, share, intSub, engine, cons>>

\* dispose: () => { p2p.dispose(); blockchain.monitoring.dispose();
\*                  sub.unsubscribe() }                       (lines 223-227)
\* sub.unsubscribe() closes the internal subscription and the onBlock
\* subscription added to it; on a subscription already closed it does
\* nothing.  When `sub` was the last subscription of the live ReplaySubject,
\* a reference-counting shareReplay disconnects from the sources.
dispose ==
    /\ disposed < MaxDisposeCalls
    /\ disposed' = disposed + 1
    /\ intSub' = FALSE
    /\ IF intSub /\ pipe = "live" /\ RefCount = 1
       THEN \E kind \in {"refCount", "keep"} :
               /\ share \in {"undecided", kind}
               /\ share' = kind
               /\ pipe' = IF kind = "refCount" THEN "off" ELSE pipe
       ELSE UNCHANGED <<share, pipe>>
    /\ UNCHANGED <<known, src, log, upstream, engine, cons>>

\* State when initAccount has run lines 162-206: the internal subscription
\* has connected the pipeline; nothing has been delivered yet.
InitEvents ==
    /\ known = 0
    /\ src = <<>>
    /\ log = <<>>
    /\ pipe = "live"
    /\ upstream = 1
    /\ share = "undecided"
    /\ intSub = TRUE
    /\ engine = <<>>
    /\ cons = [c \in Consumers |-> NoConsumer]
    /\ disposed = 0

(***************************************************************************)
(*                            BALANCE TRACKER                              *)
(***************************************************************************)

\* Bound: number of blocks the monitor delivers in one behaviour.
MaxBlocks == 3

\* new BN('1000000000000000000') of weiToEthString. Amounts of wei are
\* counted in units of 5 * 10^17 wei, so that one ether is two units and the
\* quotient fits the integers of the model checker; the division is kept.
WeiPerEther == 2

\* What the three balance queries can return.
WeiValues == {0, 1, 2}
TokenValues == {0, 1}

\* Mutant of weiToEthString: the quotient is rounded down, not toward zero.
weiToEthStringFloor(w) ==
    IF w >= 0 THEN ToString(w \div WeiPerEther)
    ELSE "-" \o ToString(0 - (w \div WeiPerEther))

\* w.div(new BN('1000000000000000000')).toString(): BN's div truncates
\* toward zero, and a zero quotient carries no sign.            (line 96)
weiToEthString(w) ==
    IF w >= 0 \/ (0 - w) \div WeiPerEther = 0
    THEN ToString((IF w >= 0 THEN w ELSE 0) \div WeiPerEther)
    ELSE "-" \o ToString((0 - w) \div WeiPerEther)

\* delta: {} of line 291.
NoDelta == [k \in {} |-> ""]

\* The object the zip of lines 280-285 builds from the three results, with
\* the fields the map of lines 286-292 adds.
Reading(bn, gotToken, hsToken, wei) ==
    [blockNumber |-> bn, gotToken |-> gotToken, hsToken |-> hsToken, wei |-> wei,
     eth |-> weiToEthString(wei),
     got |-> ToString(gotToken),
     hs |-> ToString(hsToken),
     delta |-> NoDelta]

\* Mutant of isBalanceChanged: hsToken is left out of the comparison.
isBalanceChangedNoHs(a, b) ==
    ~(a.gotToken # b.gotToken \/ a.wei # b.wei)

\* const isBalanceChanged = (a, b) =>
\*   !(['gotToken', 'hsToken', 'wei']).reduce((v, k) => v || !a[k].eq(b[k]), false)
\* TRUE when NO quantity differs: it is used as the comparator of
\* distinctUntilChanged, for which TRUE means "same as before".
\*                                                           (lines 273-275)
isBalanceChanged(a, b) ==
    ~(a.gotToken # b.gotToken \/ a.hsToken # b.hsToken \/ a.wei # b.wei)

\* distinctUntilChanged(compare): a value passes when there is no key yet or
\* compare(key, value) is false; a value that passes becomes the key.
DistinctPasses(key, r) == key = <<>> \/ ~isBalanceChanged(key[1], r)

\* A JavaScript undefined.
Undefined == "undefined"

\* BN toString() of a difference: base 10, with '-' when negative.
BNToString(n) == IF n >= 0 THEN ToString(n) ELSE "-" \o ToString(0 - n)

\* d.delta[k] && d.delta[k][0] !== '-' && (d.delta[k] = '+' + d.delta[k])
\* A rendered number is never the empty string.               (line 315)
PlusPrefixed(str) ==
    IF str # Undefined /\ Head(str) # "-" THEN "+" \o str ELSE str

\* The delta record of lines 309-315 for the pair [a, b] of pairwise().
Delta(a, b) ==
    [eth |-> PlusPrefixed(IF a.wei # b.wei THEN weiToEthString(b.wei - a.wei)
                          ELSE Undefined),
     got |-> PlusPrefixed(IF a.gotToken # b.gotToken
                          THEN BNToString(b.gotToken - a.gotToken)
                          ELSE Undefined),
     hs |-> PlusPrefixed(IF a.hsToken # b.hsToken
                         THEN BNToString(b.hsToken - a.hsToken)
                         ELSE Undefined)]

\* Object.assign({}, b, {delta: ...}): the delta view of b.   (lines 308-314)
DeltaView(a, b) == [b EXCEPT !.delta = Delta(a, b)]

\* A block number arrives on blockNumbers(): switchMap (line 279) drops the
\* batch it was waiting for and issues the three queries for the new block.
BalanceBlock ==
    /\ balState = "live"
    /\ balBlock < MaxBlocks
    /\ balBlock' = balBlock + 1
    /\ inflight' = balBlock + 1
    /\ dropped' = IF inflight # 0 THEN dropped \cup {inflight} ELSE dropped
    /\ UNCHANGED <<balState, balanceOut, dedupKey, passed, settle, entryOut>>

\* The three queries of the batch in flight have resolved: the handle's
\* balance stream emits the formatted reading (lines 280-292), and in
\* balances() the reading goes through filter(Boolean) and
\* distinctUntilChanged(isBalanceChanged) (lines 301-303).  A reading that
\* passes reaches the switchMap of line 306 paired by pairwise() with the
\* reading passed before it, which is the key distinctUntilChanged holds:
\* the first reading is emitted plain; a later one is emitted as its delta
\* view at once and plain after the delay, and the delay still running for
\* the reading before it is dropped.
EmitReading(bn, gotToken, hsToken, wei) ==
    /\ balState = "live"
    /\ LET r == Reading(bn, gotToken, hsToken, wei)
       IN /\ balanceOut' = Append(balanceOut, r)
          /\ IF DistinctPasses(dedupKey, r)
             THEN /\ dedupKey' = <<r>>
                  /\ passed' = Append(passed, r)
                  /\ IF dedupKey = <<>>
                     THEN /\ entryOut' = Append(entryOut, r)
                          /\ settle' = <<>>
                     ELSE /\ entryOut' = Append(entryOut, DeltaView(dedupKey[1], r))
                          /\ settle' = <<r>>
             ELSE UNCHANGED <<dedupKey, passed, entryOut, settle>>
    /\ inflight' = 0
    /\ UNCHANGED <<balBlock, balState, dropped>>

\* Mutant of BatchResolves: the batch of a block that a newer block has
\* superseded still delivers its result (mergeMap in place of switchMap).
BatchResolvesStale(gotToken, hsToken, wei) ==
    \E bn \in dropped \cup ({inflight} \ {0}) :
        EmitReading(bn, gotToken, hsToken, wei)

\* Only the batch of the newest block is subscribed (switchMap, line 279),
\* so only its result can arrive downstream.
BatchResolves(gotToken, hsToken, wei) ==
    /\ inflight # 0
    /\ EmitReading(inflight, gotToken, hsToken, wei)

\* The delay(5000) of line 316 expires: the plain reading replaces the delta
\* view.
DelayExpires ==
    /\ settle # <<>>
    /\ entryOut' = Append(entryOut, settle[1])
    /\ settle' = <<>>
    /\ UNCHANGED <<balBlock, inflight, balState, balanceOut, dedupKey, passed,
                   dropped>>

\* One query of the batch in flight rejects: zip and switchMap pass the
\* error on and the balance stream ends with it; the error unsubscribes the
\* delay that may be running in balances().
BatchFails ==
    /\ balState = "live"
    /\ inflight # 0
    /\ balState' = "errored"
    /\ inflight' = 0
    /\ settle' = <<>>
    /\ UNCHANGED <<balBlock, balanceOut, dedupKey, passed, dropped, entryOut>>

\* State when balances() has subscribed to the handle's balance stream: the
\* startWith(undefined) of line 294 has been dropped by filter(Boolean).
InitBalance ==
    /\ balBlock = 0
    /\ inflight = 0
    /\ balState = "live"
    /\ balanceOut = <<>>
    /\ dedupKey = <<>>
    /\ passed = <<>>
    /\ dropped = {}
    /\ settle = <<>>
    /\ entryOut = <<>>

(***************************************************************************)
(*                         MERGED BALANCE MAP                              *)
(***************************************************************************)

\* Bound: number of account lists accounts() publishes in one behaviour.
MaxLists == 2

\* Bound: number of readings the balance streams emit in one behaviour.
MaxReadings == 3

MapAddrs == {"X", "Y"}

\* The lists accounts() publishes: each holds the handles of the list before
\* it, the new ones behind them.
AccountLists == { <<"X">>, <<"X", "Y">> }

\* A pipeline of lines 301-320 at its subscription: distinctUntilChanged has
\* no key, no delay is running.
NewPipeline == [key |-> <<>>, settle |-> <<>>]

\* One pipeline of lines 301-320 takes a reading r from the handle's balance
\* stream: `pipe` is the pipeline afterwards, `out` what it emits (nothing,
\* the plain reading, or the delta view, with the plain reading held back by
\* the delay).
PipelineTakes(p, r) ==
    IF ~DistinctPasses(p.key, r) THEN [pipe |-> p, out |-> <<>>]
    ELSE IF p.key = <<>>
         THEN [pipe |-> [key |-> <<r>>, settle |-> <<>>], out |-> <<r>>]
         ELSE [pipe |-> [key |-> <<r>>, settle |-> <<r>>],
               out |-> <<DeltaView(p.key[1], r)>>]

\* .map(b => ({ [acc.owner.addressStr]: b })) and
\* .scan((bs, b) => Object.assign({}, bs, b), {}): every entry emitted by a
\* pipeline, in order, is merged into the map and the map is emitted.  An
\* entry <<>> is the undefined of startWith(undefined).     (lines 321-324)
RECURSIVE MergeEntries(_, _, _)
MergeEntries(es, bm, out) ==
    IF es = <<>> THEN [map |-> bm, out |-> out]
    ELSE LET bm2 == [bm EXCEPT ![es[1].addr] = es[1].entry]
         IN MergeEntries(Tail(es), bm2, Append(out, bm2))

\* What the pipelines subscribed for the handles of a list emit at their
\* subscription, in list order: the undefined of line 321, and behind it the
\* reading the handle's shareReplay(1) replays, when it holds one.
RECURSIVE SubscriptionEntries(_)
SubscriptionEntries(l) ==
    IF l = <<>> THEN <<>>
    ELSE LET a == Head(l)
         IN <<[addr |-> a, entry |-> <<>>]>>
              \o (IF balStream[a].latest = <<>> THEN <<>>
                  ELSE <<[addr |-> a, entry |-> balStream[a].latest]>>)
              \o SubscriptionEntries(Tail(l))

\* What the pipelines ps of account a emit for a reading r, in the order of
\* their subscription.
RECURSIVE ReadingEntries(_, _, _)
ReadingEntries(a, ps, r) ==
    IF ps = <<>> THEN <<>>
    ELSE LET o == PipelineTakes(Head(ps), r).out
         IN (IF o = <<>> THEN <<>> ELSE <<[addr |-> a, entry |-> o]>>)
              \o ReadingEntries(a, Tail(ps), r)

\* accounts() publishes a list.  mergeMap(x => x) (line 299) hands every
\* handle of the list, those of earlier lists included, to the mergeMap of
\* line 300, which subscribes a new pipeline to the handle's balance stream
\* and keeps the pipelines it has.
ListPublished(l) ==
    /\ nLists < MaxLists
    /\ Range(lastList) \subseteq Range(l)
    /\ nLists' = nLists + 1
    /\ lastList' = l
    /\ IF balancesState = "live"
       THEN LET m == MergeEntries(SubscriptionEntries(l), balanceMap, mapOut)
            IN /\ pipelines' =
                    [a \in MapAddrs |->
                       IF a \in Range(l)
                       THEN Append(pipelines[a],
                                   [NewPipeline EXCEPT !.key = balStream[a].latest])
                       ELSE pipelines[a]]
               /\ balanceMap' = m.map
               /\ mapOut' = m.out
       ELSE UNCHANGED <<pipelines, balanceMap, mapOut>>
    /\ UNCHANGED <<balStream, nReadings, balancesState>>

\* The balance stream of a's handle emits a formatted reading (lines
\* 277-295); the stream is shared, so it can go on after balances() has
\* ended.  Every pipeline subscribed to it takes the reading.
BalanceStreamEmits(a, wei) ==
    /\ nReadings < MaxReadings
    /\ pipelines[a] # <<>>
    /\ balStream[a].state = "live"
    /\ nReadings' = nReadings + 1
    /\ LET r == Reading(nReadings + 1, 0, 0, wei)
       IN /\ balStream' = [balStream EXCEPT ![a].latest = <<r>>]
          /\ IF balancesState = "live"
             THEN LET m == MergeEntries(ReadingEntries(a, pipelines[a], r),
                                        balanceMap, mapOut)
                  IN /\ pipelines' =
                          [pipelines EXCEPT ![a] =
                             [i \in 1..Len(pipelines[a]) |->
                                PipelineTakes(pipelines[a][i], r).pipe]]
                     /\ balanceMap' = m.map
                     /\ mapOut' = m.out
             ELSE UNCHANGED <<pipelines, balanceMap, mapOut>>
    /\ UNCHANGED <<lastList, nLists, balancesState>>

\* A one-shot query of a's balance stream rejects: the stream ends in error,
\* the error passes through a's pipelines and the mergeMap of line 300, and
\* balances() ends in error with every pipeline and delay unsubscribed.
BalanceStreamFails(a) ==
    /\ pipelines[a] # <<>>
    /\ balStream[a].state = "live"
    /\ balStream' = [balStream EXCEPT ![a].state = "errored"]
    /\ IF balancesState = "live"
       THEN /\ balancesState' = "errored"
            /\ pipelines' = [b \in MapAddrs |->
                               [i \in 1..Len(pipelines[b]) |->
                                  [pipelines[b][i] EXCEPT !.settle = <<>>]]]
       ELSE UNCHANGED <<balancesState, pipelines>>
    /\ UNCHANGED <<lastList, nLists, nReadings, balanceMap, mapOut>>

\* The delay(5000) of pipeline i of account a expires: the plain reading
\* replaces the delta view in the map.                          (line 316)
PipelineDelayExpires(a, i) ==
    /\ balancesState = "live"
    /\ pipelines[a][i].settle # <<>>
    /\ LET m == MergeEntries(<<[addr |-> a, entry |-> pipelines[a][i].settle]>>,
                             balanceMap, mapOut)
       IN /\ balanceMap' = m.map
          /\ mapOut' = m.out
    /\ pipelines' = [pipelines EXCEPT ![a][i].settle = <<>>]
    /\ UNCHANGED <<lastList, nLists, balStream, nReadings, balancesState>>

\* State when balances(accounts()) is subscribed: scan's seed is {}.
InitBalances ==
    /\ lastList = <<>>
    /\ nLists = 0
    /\ balStream = [a \in MapAddrs |-> [state |-> "live", latest |-> <<>>]]
    /\ nReadings = 0
    /\ pipelines = [a \in MapAddrs |-> <<>>]
    /\ balancesState = "live"
    /\ balanceMap = [a \in MapAddrs |-> <<>>]
    /\ mapOut = <<>>

(***************************************************************************)
(*                            SPECIFICATIONS                               *)
(***************************************************************************)

\* Every component in its state after construction.
Init ==
    /\ InitProxy
    /\ InitSession
    /\ InitEvents
    /\ InitBalance
    /\ InitBalances

Send == UNCHANGED <<sessVars, evVars, balVars, mapVars>> /\ \E t \in Peers, m \in Msgs : send(t, m)
SetMode == UNCHANGED <<sessVars, evVars, balVars, mapVars>> /\ \E m \in P2PModes : setMode(m)
Flush == UNCHANGED <<sessVars, evVars, balVars, mapVars>> /\ flush

NextProxy == Send \/ SetMode \/ Flush

SpecProxy == Init /\ [][NextProxy]_vars

ConfigArrives == UNCHANGED <<proxyVars, evVars, balVars, mapVars>> /\ \E c \in Configs : SessionEmits(c)
ConfigAbsent == UNCHANGED <<proxyVars, evVars, balVars, mapVars>> /\ SessionAbsent
TransportStatus ==
    UNCHANGED <<proxyVars, evVars, balVars, mapVars>> /\ \E a \in Addrs, st \in Statuses : StatusChanged(a, st)
InitialBlockNumber ==
    UNCHANGED <<proxyVars, evVars, balVars, mapVars>> /\ \E a \in Addrs : BlockNumberFetched(a)
InitialBalance == UNCHANGED <<proxyVars, evVars, balVars, mapVars>> /\ \E a \in Addrs : BalanceFetched(a)
InitialRpcFails ==
    UNCHANGED <<proxyVars, evVars, balVars, mapVars>> /\ \E a \in Addrs, which \in {"bn", "bal"} : RpcFailed(a, which)

NextSession ==
    \/ ConfigArrives
    \/ ConfigAbsent
    \/ TransportStatus
    \/ InitialBlockNumber
    \/ InitialBalance
    \/ InitialRpcFails

SpecSession == Init /\ [][NextSession]_vars

NewBlock == UNCHANGED <<proxyVars, sessVars, balVars, mapVars>> /\ BlockDelivered
BlockchainEvent ==
    UNCHANGED <<proxyVars, sessVars, balVars, mapVars>> /\ \E e \in ChainEvents : ChainEventDelivered(e)
MessageReceived ==
    UNCHANGED <<proxyVars, sessVars, balVars, mapVars>> /\ \E m \in PeerMsgs : PeerMessageDelivered(m)
ConsumerSubscribes ==
    UNCHANGED <<proxyVars, sessVars, balVars, mapVars>> /\ \E c \in Consumers : Subscribe(c)
ConsumerUnsubscribes ==
    UNCHANGED <<proxyVars, sessVars, balVars, mapVars>> /\ \E c \in Consumers : Unsubscribe(c)
HandleDisposed == UNCHANGED <<proxyVars, sessVars, balVars, mapVars>> /\ dispose

NextEvents ==
    \/ NewBlock
    \/ BlockchainEvent
    \/ MessageReceived
    \/ ConsumerSubscribes
    \/ ConsumerUnsubscribes
    \/ HandleDisposed

SpecEvents == Init /\ [][NextEvents]_vars

BalanceNewBlock == UNCHANGED <<proxyVars, sessVars, evVars, mapVars>> /\ BalanceBlock
BalanceResult ==
    /\ UNCHANGED <<proxyVars, sessVars, evVars, mapVars>>
    /\ \E g \in TokenValues, h \in TokenValues, w \in WeiValues : BatchResolves(g, h, w)
BalanceQueryFails == UNCHANGED <<proxyVars, sessVars, evVars, mapVars>> /\ BatchFails
SettlingDelayExpires == UNCHANGED <<proxyVars, sessVars, evVars, mapVars>> /\ DelayExpires

NextBalance ==
    \/ BalanceNewBlock
    \/ BalanceResult
    \/ BalanceQueryFails
    \/ SettlingDelayExpires

SpecBalance == Init /\ [][NextBalance]_vars

AccountListPublished ==
    /\ UNCHANGED <<proxyVars, sessVars, evVars, balVars>>
    /\ \E l \in AccountLists : ListPublished(l)
AccountBalanceEmits ==
    /\ UNCHANGED <<proxyVars, sessVars, evVars, balVars>>
    /\ \E a \in MapAddrs, w \in WeiValues : BalanceStreamEmits(a, w)
AccountBalanceFails ==
    /\ UNCHANGED <<proxyVars, sessVars, evVars, balVars>>
    /\ \E a \in MapAddrs : BalanceStreamFails(a)
DeltaViewSettles ==
    /\ UNCHANGED <<proxyVars, sessVars, evVars, balVars>>
    /\ \E a \in MapAddrs : \E i \in 1..Len(pipelines[a]) : PipelineDelayExpires(a, i)

NextBalances ==
    \/ AccountListPublished
    \/ AccountBalanceEmits
    \/ AccountBalanceFails
    \/ DeltaViewSettles

SpecBalances == Init /\ [][NextBalances]_vars

(***************************************************************************)
(*                 CLAIMS ABOUT THE MESSAGE DELIVERY PROXY                 *)
(***************************************************************************)

\* The wire form of a queued or called pair, and of a wire entry.
WirePair(p) == <<Hex(p[1]), Serialize(p[2])>>
EntryPair(e) == <<e.to, e.msg>>

\* The step hands exactly the queued pairs to the transport, in queue order,
\* after everything already on the wire.
HandsOverQueue ==
    /\ Len(wire') = Len(wire) + Len(messages)
    /\ SubSeq(wire', 1, Len(wire)) = wire
    /\ \A i \in 1..Len(messages) :
          /\ EntryPair(wire'[Len(wire) + i]) = WirePair(messages[i])
          /\ wire'[Len(wire) + i].pos = i

\* C1, first half: a send() made in manual mode invokes no raw send and
\* appends its pair at the end of the pending queue.
C1_ManualSendStep ==
    (mode = "manual" /\ calls' # calls) =>
        /\ wire' = wire
        /\ messages' = Append(messages, Last(calls'))

\* C1, second half: a flush() made in manual mode invokes the raw send once
\* per queued pair, in queue order, and leaves the queue empty.
C1_FlushStep ==
    (mode = "manual" /\ lastOp'.op = "flush") =>
        /\ HandsOverQueue
        /\ messages' = <<>>
        /\ mode' = "manual"

\* C1: in manual mode the pending queue is always exactly the last
\* Len(messages) send calls in call order, none of them on the wire yet; a
\* manual send only appends to the queue, and a following flush() invokes the
\* transport's raw send exactly once per queued pair, in call order, with
\* exactly those pairs, and leaves the queue empty.
C1_ManualQueueThenFlush ==
    /\ [](mode = "manual" =>
            /\ Len(messages) <= Len(calls)
            /\ messages = SubSeq(calls, Len(calls) - Len(messages) + 1, Len(calls))
            /\ Len(wire) = Len(calls) - Len(messages))
    /\ [][C1_ManualSendStep /\ C1_FlushStep]_vars

\* Witness of C1: setMode('manual'), three sends, one flush() that sent all
\* three, two of them different pairs.
C1_Witness ==
    /\ lastOp.op = "flush" /\ lastOp.n = 3
    /\ mode = "manual"
    /\ Len(calls) = 3 /\ Len(wire) = 3
    /\ calls[1] # calls[2]
    /\ messages = <<>>

\* C2: normal mode never queues: whenever mode = normal the pending queue is
\* empty, and a send() made in normal mode has invoked the transport's raw
\* send for its own pair within the call (the last wire entry is that pair,
\* sent directly).
C2_NormalNeverQueues ==
    /\ mode = "normal" => messages = <<>>
    /\ (lastOp.op = "send" /\ mode = "normal") =>
          /\ wire # <<>>
          /\ Last(wire).pos = 0
          /\ EntryPair(Last(wire)) = WirePair(Last(calls))
          /\ Len(wire) = Len(calls)

\* Witness of C2: a normal-mode send made after a manual phase whose queue
\* was flushed by the switch back to normal.
C2_Witness ==
    /\ lastOp.op = "send" /\ mode = "normal"
    /\ Len(wire) >= 2
    /\ wire[Len(wire) - 1].pos >= 1
    /\ wire[Len(wire) - 1].modeAt = "manual"
    /\ Last(wire).pos = 0

\* C3: every setMode(m) step sends the whole pending queue in FIFO order
\* while the mode is still the old one, clears the queue, queues nothing,
\* and ends with getMode() = m.
C3_SetModeStep ==
    lastOp'.op = "setMode" =>
        /\ HandsOverQueue
        /\ \A i \in 1..Len(messages) : wire'[Len(wire) + i].modeAt = mode
        /\ messages' = <<>>
        /\ calls' = calls
        /\ mode' = lastOp'.m

C3_SetModeFlushesFirst == [][C3_SetModeStep]_vars

\* Witness of C3: setMode('normal') called in manual mode with two pairs
\* queued; both went out under the old mode and the mode is now normal.
C3_Witness ==
    /\ lastOp.op = "setMode" /\ lastOp.m = "normal" /\ lastOp.n = 2
    /\ mode = "normal"
    /\ messages = <<>>
    /\ Last(wire).pos = 2 /\ Last(wire).modeAt = "manual"

\* C4, per step: a flush() or setMode() in which some raw send fails still
\* hands every queued pair to the transport, leaves the queue empty and
\* (for setMode) assigns the mode.
C4_FailingFlushStep ==
    (/\ lastOp'.op \in {"flush", "setMode"}
     /\ Len(wire') > Len(wire)
     /\ \E i \in (Len(wire) + 1)..Len(wire') : ~wire'[i].ok) =>
        /\ HandsOverQueue
        /\ messages' = <<>>
        /\ lastOp'.op = "setMode" => mode' = lastOp'.m

\* C4: a failing raw send does not stop a flush, the queue is cleared and
\* the mode assigned all the same, and nothing is retried: every send call
\* accounts for exactly one raw send or one queued pair.
C4_FlushSurvivesFailure ==
    /\ [][C4_FailingFlushStep]_vars
    /\ [](Len(wire) + Len(messages) = Len(calls))

\* Witness of C4: a setMode('normal') that flushed two pairs, the first of
\* which failed; the second was still sent and the mode is normal.
C4_Witness ==
    /\ lastOp.op = "setMode" /\ lastOp.n = 2 /\ lastOp.m = "normal"
    /\ mode = "normal"
    /\ messages = <<>>
    /\ ~wire[Len(wire) - 1].ok /\ wire[Len(wire) - 1].pos = 1
    /\ Last(wire).pos = 2

(***************************************************************************)
(*        CLAIMS ABOUT THE SESSION MANAGER AND ACCOUNT INITIALIZER         *)
(***************************************************************************)

\* C5: over any sequence of configuration changes the account initializer is
\* invoked at most once per address (so that [A, B] followed by [A, B, C]
\* costs exactly one more invocation, for C, however the update interleaves
\* with the completion of A's and B's initialization).
C5_InitOncePerAddress == \A a \in Addrs : acct[a].gen <= 1

\* C6: a handle is emitted only for an instance whose transport has reported
\* 'connected' and whose initial block number and initial balance have both
\* been fetched; an instance whose transport has not reported 'connected' has
\* no handle; and no instance emits more than one handle.
C6_HandleOnlyWhenReady ==
    /\ \A i \in 1..Len(inited) :
          LET p == acct[inited[i].addr]
          IN /\ p.gen = inited[i].gen
             /\ "connected" \in p.reported
             /\ p.bn = "ok"
             /\ p.bal = "ok"
    /\ \A a \in Addrs :
          /\ "connected" \notin acct[a].reported =>
                \A i \in 1..Len(inited) : inited[i].addr # a
          /\ acct[a].emits <= 1
          /\ acct[a].emits = Cardinality({i \in 1..Len(inited) : inited[i].addr = a})

\* Witness of C6: one instance has emitted its handle after its transport
\* reported 'disconnected' and then 'connected', while another instance, with
\* both RPC results in hand but a transport that has reported only
\* 'disconnected', has emitted none.
C6_Witness ==
    \E a, b \in Addrs :
        /\ a # b
        /\ acct[a].phase = "done"
        /\ acct[a].reported = {"connected", "disconnected"}
        /\ \E i \in 1..Len(inited) : inited[i] = Handle(a, acct[a])
        /\ acct[b].phase = "pending"
        /\ acct[b].bn = "ok" /\ acct[b].bal = "ok"
        /\ acct[b].reported = {"disconnected"}
        /\ acct[b].emits = 0

(***************************************************************************)
(*          CLAIMS ABOUT THE EVENT AGGREGATOR AND ENGINE DRIVING           *)
(***************************************************************************)

\* What one raw source has delivered so far, in delivery order.
DeliveredBy(source) ==
    LET From(x) == x.source = source
        d == SelectSeq(src, From)
    IN [i \in 1..Len(d) |-> d[i].event]

\* The arguments one engine callback has been invoked with, in order.
EngineArgs(cb) ==
    LET Is(x) == x.cb = cb
        d == SelectSeq(engine, Is)
    IN [i \in 1..Len(d) |-> d[i].arg]

\* The events of one source in a log, in log order.
LoggedBy(l, source) ==
    LET From(x) == x.source = source
        d == SelectSeq(l, From)
    IN [i \in 1..Len(d) |-> d[i].event]

\* The inbound peer messages that can be decoded, decoded, in delivery order.
DecodableDelivered ==
    LET Ok(x) == x.source = "P" /\ DeserializeAndDecode(x.event) # "throws"
        d == SelectSeq(src, Ok)
    IN [i \in 1..Len(d) |-> DeserializeAndDecode(d[i].event)]

\* C8: engine.onBlock has been invoked exactly once per block number the
\* monitor delivered, in delivery order; engine.onBlockchainEvent exactly
\* once per blockchain event; engine.onMessage exactly once per (decodable)
\* inbound peer message; and, however many consumers have subscribed to the
\* event log, the pipeline has subscribed to the raw sources once.  (Stated
\* of a handle that has not been disposed.)
C8_EngineDrivenOncePerEvent ==
    disposed = 0 =>
        /\ EngineArgs("onBlock") = DeliveredBy("N")
        /\ EngineArgs("onBlockchainEvent") = DeliveredBy("B")
        /\ EngineArgs("onMessage") = DecodableDelivered
        /\ upstream = 1

\* C9: a consumer that subscribed to the event log after k events had been
\* observed was replayed exactly those k events, in their observed order.
\* (Stated of a handle that has not been disposed.)
C9_LateSubscriberGetsHistory ==
    \A c \in Consumers :
        (disposed = 0 /\ cons[c].on) =>
            /\ Len(cons[c].replay) = cons[c].k
            /\ \A i \in 1..cons[c].k :
                  /\ cons[c].replay[i].source = src[i].source
                  /\ cons[c].replay[i].event = src[i].event

\* C10: the event log only ever grows by appended events, and restricted to
\* any one source it is exactly the sequence that source has delivered since
\* the pipeline was constructed.  (Stated of a handle that has not been
\* disposed.)
C10_LogFidelity ==
    /\ [](disposed = 0 =>
            \A source \in {"B", "P", "N"} : LoggedBy(log, source) = DeliveredBy(source))
    /\ [][disposed' = 0 =>
             Len(log') >= Len(log) /\ SubSeq(log', 1, Len(log)) = log]_vars

(***************************************************************************)
(*                   CLAIMS ABOUT THE BALANCE TRACKER                      *)
(***************************************************************************)

\* At least one of the three quantities differs between two readings.
Differs(a, b) == a.wei # b.wei \/ a.gotToken # b.gotToken \/ a.hsToken # b.hsToken

\* The first n readings of s with every reading removed that differs in no
\* quantity from the last reading kept before it.
RECURSIVE DedupPrefix(_, _)
DedupPrefix(s, n) ==
    IF n = 0 THEN <<>>
    ELSE LET kept == DedupPrefix(s, n - 1)
         IN IF kept = <<>> \/ Differs(Last(kept), s[n]) THEN Append(kept, s[n])
            ELSE kept

IsDeltaView(e) == DOMAIN e.delta # {}
Views == SelectSeq(entryOut, IsDeltaView)

\* What C11 asks of the rendering str of one quantity that went from
\* `before` to `after`: defined exactly when the quantity changed, one
\* leading '+' on an increase, a leading '-' and no '+' on a decrease.
SignedAsClaimed(before, after, str) ==
    /\ (str # Undefined) <=> (before # after)
    /\ after > before => /\ str # Undefined
                         /\ Head(str) = "+"
                         /\ Head(Tail(str)) \notin {"+", "-"}
    /\ after < before => /\ str # Undefined
                         /\ Head(str) = "-"
                         /\ Head(Tail(str)) \notin {"+", "-"}

\* C11 as claimed: the i-th delta view belongs to the i-th pair of
\* consecutive distinct readings, and its delta renders each of the three
\* quantities with the sign of its change, the native one included.
C11_DeltaSignFollowsChange ==
    /\ Len(Views) = IF passed = <<>> THEN 0 ELSE Len(passed) - 1
    /\ \A i \in 1..Len(Views) :
          LET prev == passed[i]
              next == passed[i + 1]
              d == Views[i].delta
          IN /\ SignedAsClaimed(prev.wei, next.wei, d.eth)
             /\ SignedAsClaimed(prev.gotToken, next.gotToken, d.got)
             /\ SignedAsClaimed(prev.hsToken, next.hsToken, d.hs)

C19_NoBatchCancelled ==
    /\ dropped = {}
    /\ \A i \in 2..Len(balanceOut) :
          balanceOut[i - 1].blockNumber <= balanceOut[i].blockNumber

\* C19 as amended: a new block arriving while the batch of the block before
\* it is in flight supersedes that batch, whose result is then never
\* delivered; every reading emitted is for the newest block delivered so
\* far, and no reading for a block is emitted after one for a later block.
C19_SupersededBatchDiscarded ==
    /\ [](/\ \A i \in 1..Len(balanceOut) : balanceOut[i].blockNumber \notin dropped
          /\ \A i \in 2..Len(balanceOut) :
                balanceOut[i - 1].blockNumber < balanceOut[i].blockNumber)
    /\ [][balanceOut' # balanceOut => Last(balanceOut').blockNumber = balBlock]_vars

\* Witness of C19: block 2 arrived while the batch of block 1 was in flight;
\* block 1 has no reading, blocks 2 and 3 have.
C19_Witness ==
    /\ dropped = {1}
    /\ Len(balanceOut) = 2
    /\ balanceOut[1].blockNumber = 2
    /\ balanceOut[2].blockNumber = 3

(***************************************************************************)
(*              FURTHER CLAIMS ABOUT THE SESSION MANAGER                   *)
(***************************************************************************)

\* The handles published so far, in any list.
PublishedHandles == UNION {Range(published[j]) : j \in 1..Len(published)}

\* C15 as claimed, for the failure that ends in finitely many steps: when the
\* initial RPC of one account has failed, every other account whose three
\* preconditions were met (whose handle was emitted) is in a published list.
\* Once accounts() has ended in error nothing is published any more, so a
\* handle missing then is missing for ever.
C15_FailureDoesNotBlockOthers ==
    accStream = "errored" => Range(inited) \subseteq PublishedHandles

\* C16: every published list contains the handles of every list published
\* before it, is the list of all handles emitted up to its publication (the
\* old ones and those initialized in that step), and holds no two handles
\* for one address.
C16_ListsAccumulate ==
    /\ [](\A j \in 1..Len(published) :
            /\ \A i \in 1..j : Range(published[i]) \subseteq Range(published[j])
            /\ \A m, n \in 1..Len(published[j]) :
                  published[j][m].addr = published[j][n].addr => m = n)
    /\ [][published' # published =>
             /\ published' = Append(published, Last(published'))
             /\ Range(Last(published')) = Range(inited')
             /\ Len(Last(published')) = Len(inited')]_vars

\* Witness of C16: a second list was published that holds the handle of the
\* first list and a handle initialized after it.
C16_Witness ==
    /\ Len(published) >= 2
    /\ published[1] # <<>>
    /\ Len(published[2]) > Len(published[1])
    /\ Range(published[1]) \subseteq Range(published[2])

\* C17 as claimed: once the configuration is absent, no account list is
\* published and no initializer is invoked, and no handle leaves the set of
\* constructed handles.
C17_NothingAfterConfigLoss ==
    [][loggedOut =>
          /\ published' = published
          /\ \A a \in Addrs : acct'[a].gen = acct[a].gen
          /\ Range(inited) \subseteq Range(inited')]_vars

(***************************************************************************)
(*        FURTHER CLAIMS ABOUT THE EVENT AGGREGATOR AND THE HANDLE         *)
(***************************************************************************)

\* C18 as claimed: an inbound peer message that cannot be deserialized is
\* not in the event log and gives engine.onMessage no value, and its
\* delivery leaves the merged stream and the subscriptions that drive the
\* engine as they were.
C18_MalformedMessageDropped ==
    /\ [](/\ \A i \in 1..Len(log) :
               log[i].source = "P" => DeserializeAndDecode(log[i].event) # "throws"
          /\ \A i \in 1..Len(engine) :
               engine[i].cb = "onMessage" => engine[i].arg # "throws")
    /\ [][(/\ Len(src') = Len(src) + 1
           /\ Last(src').source = "P"
           /\ DeserializeAndDecode(Last(src').event) = "throws")
             => pipe' = pipe /\ intSub' = intSub]_vars

ShowsLatest(entry, latest) ==
    IF latest = <<>> THEN entry = <<>>
    ELSE entry # <<>> /\ ~Differs(entry[1], latest[1])

\* C13 as claimed: while balances() runs, the map's value for an address is
\* the most recent reading of that address's balance stream, and in the
\* sequence of maps emitted an address that has had a value never is absent
\* again.
C13_EntryNeverAbsentAgain ==
    /\ balancesState = "live" =>
          \A a \in MapAddrs :
              pipelines[a] # <<>> => ShowsLatest(balanceMap[a], balStream[a].latest)
    /\ \A i, j \in 1..Len(mapOut) :
          \A a \in MapAddrs : (i <= j /\ mapOut[i][a] # <<>>) => mapOut[j][a] # <<>>

\* C14 as claimed: whatever has failed for another account, the map shows
\* for every account whose balance stream is alive and subscribed the most
\* recent reading that stream has emitted.
C14_FailureConfinedToAccount ==
    \A a \in MapAddrs :
        (balStream[a].state = "live" /\ pipelines[a] # <<>>)
            => ShowsLatest(balanceMap[a], balStream[a].latest)

(***************************************************************************)
(*                           REMAINING CLAIMS                              *)
(***************************************************************************)

\* A reading with the empty delta of line 291.
Plain(e) == [e EXCEPT !.delta = NoDelta]

\* The delta view within one pipeline whose tracker is alive: the first
\* distinct reading is emitted plain; every later distinct reading b is
\* emitted at once as its delta view; while that view is the last emission
\* the delay that will emit plain b is running; a plain reading is only ever
\* emitted directly after its own delta view.
DeltaViewThenPlainWhileAlive ==
    /\ [](/\ passed # <<>> => entryOut # <<>> /\ entryOut[1] = passed[1]
                              /\ ~IsDeltaView(entryOut[1])
          /\ \A k \in 2..Len(entryOut) :
                ~IsDeltaView(entryOut[k]) =>
                    /\ IsDeltaView(entryOut[k - 1])
                    /\ Plain(entryOut[k - 1]) = entryOut[k]
          /\ (entryOut # <<>> /\ IsDeltaView(Last(entryOut)) /\ balState = "live")
                => settle = <<Plain(Last(entryOut))>>
          /\ settle # <<>> => /\ settle[1] = Last(passed)
                              /\ IsDeltaView(Last(entryOut))
                              /\ Plain(Last(entryOut)) = settle[1])
    /\ [][(passed' # passed /\ passed # <<>>) =>
             /\ entryOut' = Append(entryOut, Last(entryOut'))
             /\ IsDeltaView(Last(entryOut'))
             /\ Plain(Last(entryOut')) = Last(passed')]_vars

\* The delay that will replace the delta view the map shows for a by the
\* plain reading is running in one of a's pipelines.
SettlePending(a) ==
    \E i \in 1..Len(pipelines[a]) :
        pipelines[a][i].settle = <<Plain(balanceMap[a][1])>>

\* C21 as claimed: the first value the map shows for an address is a plain
\* reading; whenever the map shows a delta view, the settling delay that
\* will replace it by the plain reading is pending (so that, no newer
\* distinct reading arriving, the plain reading is shown next); and once the
\* delta view of a reading has been shown, no plain reading of an earlier
\* block is shown.
C21_DeltaViewSettles ==
    \A a \in MapAddrs :
        /\ (balanceMap[a] # <<>> /\ IsDeltaView(balanceMap[a][1])) => SettlePending(a)
        /\ \A j \in 1..Len(mapOut) :
              (mapOut[j][a] # <<>> /\ \A i \in 1..(j - 1) : mapOut[i][a] = <<>>)
                  => ~IsDeltaView(mapOut[j][a][1])
        /\ \A i, j \in 1..Len(mapOut) :
              (/\ i < j
               /\ mapOut[i][a] # <<>> /\ IsDeltaView(mapOut[i][a][1])
               /\ mapOut[j][a] # <<>> /\ ~IsDeltaView(mapOut[j][a][1]))
                  => mapOut[j][a][1].blockNumber >= mapOut[i][a][1].blockNumber

\* C22 as claimed: a peer message or blockchain event delivered while the
\* monitor has reported no block number is appended to the event log under
\* its source tag, and the merged stream stays alive.
C22_EarlyEventLogged ==
    [][(/\ known = 0
        /\ pipe = "live"
        /\ Len(src') = Len(src) + 1
        /\ Last(src').source \in {"P", "B"})
          => /\ pipe' = "live"
             /\ Len(log') = Len(log) + 1
             /\ Last(log').source = Last(src').source
             /\ Last(log').event = Last(src').event]_vars

\* C23: in every state the raw sends made so far followed by the pending
\* queue are the send calls made so far, pair by pair and in call order; so
\* right after a flush() or a setMode(), when no send has failed, the raw
\* sends are exactly the send calls, each once and in call order.
C23_EndToEndDelivery ==
    /\ [i \in 1..Len(wire) |-> EntryPair(wire[i])]
          \o [i \in 1..Len(messages) |-> WirePair(messages[i])]
       = [i \in 1..Len(calls) |-> WirePair(calls[i])]
    /\ (lastOp.op \in {"flush", "setMode"} /\ \A i \in 1..Len(wire) : wire[i].ok)
          => [i \in 1..Len(wire) |-> EntryPair(wire[i])]
               = [i \in 1..Len(calls) |-> WirePair(calls[i])]

\* Witness of C23: three sends across mode switches, the first and the third
\* delivered by a flush, the second directly, none failing, and a flush()
\* made last.
C23_Witness ==
    /\ lastOp.op = "flush"
    /\ Len(calls) = 3 /\ Len(wire) = 3
    /\ wire[1].pos = 1 /\ wire[2].pos = 0 /\ wire[3].pos = 1
    /\ \A i \in 1..3 : wire[i].ok
    /\ calls[1] # calls[3]

====
